---- MODULE Spec2Model ----
(***************************************************************************)
(* Model of AutoTrader/persistence.py: the trade store, its schema         *)
(* migration (check_migrate), the initialisation entry point (init), the   *)
(* dry-run clean-up (clean_dry_run_db) and the flush (cleanup).            *)
(*                                                                         *)
(* The store is the relational database the engine is bound to: a set of   *)
(* tables (column list + rows) and a set of named indexes.  Every SQL      *)
(* statement the module issues is one step of the model, so that a run can *)
(* stop between two statements exactly where the code can raise.           *)
(***************************************************************************)
EXTENDS Integers, Sequences, FiniteSets, TLC

\* ------------------------------------------------------------------ bounds
\* Largest number of rows a legacy or current trades table holds initially.
MaxRows == 2
\* Largest number of entry-point invocations (init / check_migrate) in a run.
MaxRuns == 2

\* ------------------------------------------------------------- SQL values
NULL == [k |-> "null"]
Num(n) == [k |-> "num", v |-> n]
Str(s) == [k |-> "str", v |-> s]

\* Text is a sequence of one-character strings.
sBinance == <<"B","i","n","a","n","c","e">>
sbittrex == <<"b","i","t","t","r","e","x">>
sETH_BTC == <<"E","T","H","_","B","T","C">>
sETHsBTC == <<"E","T","H","/","B","T","C">>
sA_B == <<"A","_","B">>
sDryRun1 == <<"d","r","y","_","r","u","n","-","1">>
sReal == <<"x","9">>

\* persistence.py:155  the marker looked for in an order id
DryRunMarker == <<"d","r","y","_","r","u","n">>

UpperChars == <<"A","B","C","E","H","T">>
LowerChars == <<"a","b","c","e","h","t">>

\* SQL lower() on one character (persistence.py:118)
LowerChar(c) ==
    IF \E i \in DOMAIN UpperChars : UpperChars[i] = c
    THEN LowerChars[CHOOSE i \in DOMAIN UpperChars : UpperChars[i] = c]
    ELSE c

\* SQL lower(X)
Lower(s) == [i \in DOMAIN s |-> LowerChar(s[i])]

\* SQL instr(X, Y) for a one-character Y: 1-based position of the first
\* occurrence, 0 when there is none.
Instr(s, ch) ==
    IF \E i \in DOMAIN s : s[i] = ch
    THEN CHOOSE i \in DOMAIN s : s[i] = ch /\ \A j \in 1..(i - 1) : s[j] # ch
    ELSE 0

\* SQL substr(X, Y): two-argument form, everything from position Y to the end;
\* Y = 0 starts before the first character, a negative Y counts from the right.
Substr2(s, y) ==
    IF y > 0 THEN SubSeq(s, y, Len(s))
    ELSE IF y = 0 THEN s
    ELSE IF -y >= Len(s) THEN s
    ELSE SubSeq(s, Len(s) + y + 1, Len(s))

\* persistence.py:119-124  the CASE expression that rewrites pair
PairCase(pair) ==
    IF Instr(pair, "_") # 0
    THEN Substr2(pair, Instr(pair, "_") + 1) \o <<"/">> \o
         Substr2(pair, Instr(pair, "_") - 1)
    ELSE pair

\* Python's `marker in text` (persistence.py:155)
Contains(text, marker) ==
    \E i \in 1..(Len(text) - Len(marker) + 1) :
        SubSeq(text, i, i + Len(marker) - 1) = marker

\* ------------------------------------------------------------------ schema
\* persistence.py:166-192  the columns of the Trade class, in declaration order
CurrentCols ==
    <<"id", "exchange", "pair", "is_open", "fee_open", "fee_close",
      "open_rate", "open_rate_requested", "close_rate", "close_rate_requested",
      "close_profit", "stake_amount", "amount", "open_date", "close_date",
      "open_order_id", "stop_loss", "stop_loss_pct", "initial_stop_loss",
      "initial_stop_loss_pct", "stop_loss_order_id", "stoploss_last_update",
      "max_rate", "min_rate", "sell_reason", "strategy", "ticker_interval">>

\* persistence.py:166-182  columns declared primary_key or nullable=False
NotNullCols ==
    {"id", "exchange", "pair", "is_open", "fee_open", "fee_close",
     "stake_amount", "open_date", "stop_loss"}

\* persistence.py:168,169,186  the index=True columns; SQLAlchemy names the
\* index of column c of table trades ix_trades_<c>
CurrentIndexes ==
    {"ix_trades_pair", "ix_trades_is_open", "ix_trades_stop_loss_order_id"}

\* persistence.py:111-116  the column list of the insert
InsertCols ==
    <<"id", "exchange", "pair", "is_open", "fee_open", "fee_close",
      "open_rate", "open_rate_requested", "close_rate", "close_rate_requested",
      "close_profit", "stake_amount", "amount", "open_date", "close_date",
      "open_order_id", "stop_loss", "stop_loss_pct", "initial_stop_loss",
      "initial_stop_loss_pct", "stoploss_order_id", "stoploss_last_update",
      "max_rate", "min_rate", "sell_reason", "strategy", "ticker_interval">>

\* persistence.py:89-103  the columns resolved with get_column_def, each with
\* the expression used when the legacy table lacks the column
Fallback ==
    [fee_open |-> "fee", fee_close |-> "fee",
     open_rate_requested |-> "null", close_rate_requested |-> "null",
     stop_loss |-> "0.0", stop_loss_pct |-> "null",
     initial_stop_loss |-> "0.0", initial_stop_loss_pct |-> "null",
     stoploss_order_id |-> "null", stoploss_last_update |-> "null",
     max_rate |-> "0.0", min_rate |-> "null", sell_reason |-> "null",
     strategy |-> "null", ticker_interval |-> "null"]

ResolvedCols == DOMAIN Fallback

\* The presence test misspells the marker column: no table ever has it.
MarkerCol_misspelt == "stop_loss_pc"

\* persistence.py:86,94  the column whose presence means "already migrated"
MarkerCol == "stop_loss_pct"

\* persistence.py:118-135  the select list, one expression per insert column:
\* a plain column, lower(column), the pair CASE, or a resolved expression
SelectExprs ==
    [i \in DOMAIN InsertCols |->
        LET c == InsertCols[i] IN
        IF c = "exchange" THEN [kind |-> "lower", name |-> c]
        ELSE IF c = "pair" THEN [kind |-> "paircase", name |-> c]
        ELSE IF c \in ResolvedCols THEN [kind |-> "resolved", name |-> c]
        ELSE [kind |-> "col", name |-> c]]

\* Legacy table shapes: the columns older versions of the Trade class had.
BaseCols ==
    <<"id", "exchange", "pair", "is_open", "open_rate", "close_rate",
      "close_profit", "stake_amount", "amount", "open_date", "close_date",
      "open_order_id">>
ShapeBare == BaseCols
ShapeFee == BaseCols \o <<"fee">>
ShapeFees ==
    BaseCols \o <<"fee_open", "fee_close", "open_rate_requested",
                  "close_rate_requested">>
ShapeStop ==
    ShapeFees \o <<"stop_loss", "initial_stop_loss", "max_rate",
                   "sell_reason", "strategy", "ticker_interval">>
LegacyShapes == {ShapeBare, ShapeFee, ShapeFees, ShapeStop}

\* The indexes a legacy table carries: the oldest shapes had none, the later
\* ones had pair and is_open indexed.
LegacyIndexes(shape) ==
    IF shape \in {ShapeBare, ShapeFee} THEN {}
    ELSE {"ix_trades_pair", "ix_trades_is_open"}

Range(f) == {f[i] : i \in DOMAIN f}

\* ------------------------------------------------------------- statements
\* persistence.py:65-66  has_columns: exactly one column of that name
has_columns(columns, searchname) ==
    Cardinality({i \in DOMAIN columns : columns[i] = searchname}) = 1

\* get_column_def drops the caller's default: a missing column becomes null.
get_column_def_null_default(columns, column, default) ==
    IF ~has_columns(columns, column) THEN "null" ELSE column

\* persistence.py:69-70  get_column_def
get_column_def(columns, column, default) ==
    IF ~has_columns(columns, column) THEN default ELSE column

\* The names trades_bak<i> of persistence.py:83
BakNames ==
    <<"trades_bak0", "trades_bak1", "trades_bak2", "trades_bak3",
      "trades_bak4", "trades_bak5", "trades_bak6", "trades_bak7">>
BakName(i) == BakNames[i + 1]

\* persistence.py:81-84  the loop over enumerate(tabs): every iteration
\* overwrites table_back_name, the value after the last one is used
RECURSIVE BackupLoop(_, _, _)
BackupLoop(n, i, name) ==
    IF i >= n THEN name ELSE BackupLoop(n, i + 1, BakName(i))

\* persistence.py:80-84  table_back_name for the table names tabs
BackupNameFor(tabs) == BackupLoop(Cardinality(tabs), 0, "trades_bak")

\* ------------------------------------------------------------------ store
\* An SQL expression of the select list evaluated on the row r: the literals
\* null and 0.0, or a reference to a column of the source table.
EvalExpr(e, r) ==
    IF e = "null" THEN NULL
    ELSE IF e = "0.0" THEN Num(0)
    ELSE r[e]

\* The columns of the source table an expression refers to.
ExprRefs(e) == IF e \in {"null", "0.0"} THEN {} ELSE {e}

\* persistence.py:118-135  the columns of the backup table the select reads,
\* given the resolved expressions d
SelectRefs(d) ==
    UNION {IF SelectExprs[i].kind = "resolved"
           THEN ExprRefs(d[SelectExprs[i].name])
           ELSE {SelectExprs[i].name} : i \in DOMAIN SelectExprs}

\* persistence.py:118-135  one row of the select's result, by position
SelectRow(r, d) ==
    [i \in DOMAIN SelectExprs |->
        LET e == SelectExprs[i] IN
        IF e.kind = "lower" THEN Str(Lower(r[e.name].v))
        ELSE IF e.kind = "paircase" THEN Str(PairCase(r[e.name].v))
        ELSE IF e.kind = "resolved" THEN EvalExpr(d[e.name], r)
        ELSE r[e.name]]

\* persistence.py:110-117  the row inserted into a table with columns
\* targetCols for one row of the select's result: the i-th value goes to the
\* i-th column of the insert list, a column not listed stays null
InsertedRow(sel, targetCols) ==
    [c \in Range(targetCols) |->
        IF \E i \in DOMAIN InsertCols : InsertCols[i] = c
        THEN sel[CHOOSE i \in DOMAIN InsertCols : InsertCols[i] = c]
        ELSE NULL]

\* persistence.py:110-136  whether the database accepts the insert-select from
\* table src into table dst: every column the select reads is a column of
\* src, every column of the insert list is a column of dst, no NOT NULL
\* column of dst receives null and no id is inserted twice
InsertAccepted(src, dst, d) ==
    /\ SelectRefs(d) \subseteq Range(src.cols)
    /\ Range(InsertCols) \subseteq Range(dst.cols)
    /\ \A r \in src.rows : \A c \in NotNullCols \cap Range(dst.cols) :
          InsertedRow(SelectRow(r, d), dst.cols)[c] # NULL
    /\ \A r \in src.rows : \A t \in dst.rows : t["id"] # r["id"]

\* persistence.py:110-136  the rows of dst after an accepted insert-select
InsertSelectRows(src, dst, d) ==
    dst.rows \cup {InsertedRow(SelectRow(r, d), dst.cols) : r \in src.rows}

\* The indexes of the renamed table are not found, so none is dropped.
get_indexes_none(idx, table) == {}

\* persistence.py:106  inspector.get_indexes(table): the names of the indexes
\* defined on that table
get_indexes(idx, table) == {x.name : x \in {y \in idx : y.tbl = table}}

IndexNames(idx) == {x.name : x \in idx}

EmptyTrades == [cols |-> CurrentCols, rows |-> {}]

\* persistence.py:58,108  _DECL_BASE.metadata.create_all(engine): the set of
\* outcomes [t, i, ok].  A table that exists is left alone.  Otherwise the
\* table is created with the Trade columns and then its indexes; index names
\* share one namespace, so an index of that name left on another table makes
\* the call raise.  Whether the statements issued before the failing one
\* persist depends on the database (transactional DDL or not): both outcomes
\* are possible.
create_all(t, i) ==
    IF "trades" \in DOMAIN t
    THEN {[t |-> t, i |-> i, ok |-> TRUE]}
    ELSE LET made == [n \in DOMAIN t \cup {"trades"} |->
                         IF n = "trades" THEN EmptyTrades ELSE t[n]]
             free == CurrentIndexes \ IndexNames(i)
         IN IF free = CurrentIndexes
            THEN {[t |-> made,
                   i |-> i \cup {[name |-> n, tbl |-> "trades"] : n \in free},
                   ok |-> TRUE]}
            ELSE {[t |-> t, i |-> i, ok |-> FALSE]} \cup
                 {[t |-> made,
                   i |-> i \cup {[name |-> n, tbl |-> "trades"] : n \in some},
                   ok |-> FALSE] : some \in SUBSET free}

\* The backup is made as a copy: trades stays in place under its own name.
RenameTable_keeps_trades(t, name) ==
    [n \in DOMAIN t \cup {name} |-> IF n = name THEN t["trades"] ELSE t[n]]

\* The backup is made with the columns of trades only: its rows are lost.
RenameTable_loses_rows(t, name) ==
    [n \in (DOMAIN t \ {"trades"}) \cup {name} |->
        IF n = name THEN [cols |-> t["trades"].cols, rows |-> {}] ELSE t[n]]

\* persistence.py:105  alter table trades rename to <name>: the table keeps
\* its columns, rows and indexes under the new name
RenameTable(t, name) ==
    [n \in (DOMAIN t \ {"trades"}) \cup {name} |->
        IF n = name THEN t["trades"] ELSE t[n]]

RenameIndexes(idx, name) ==
    {[name |-> x.name, tbl |-> IF x.tbl = "trades" THEN name ELSE x.tbl] :
        x \in idx}

\* The clean-up is gated on the flag alone, whatever the location.
ShouldClean_ignores_url(url, flag) == flag

\* persistence.py:61  the condition under which init cleans dry-run orders
ShouldClean(url, flag) == flag /\ url # "sqlite://"

\* persistence.py:154-156  clean_dry_run_db: the ids of the trades whose
\* open_order_id is not null and contains the marker
clean_dry_run_db(rows) ==
    {r["id"] : r \in {x \in rows : /\ x["open_order_id"] # NULL
                                  /\ Contains(x["open_order_id"].v, DryRunMarker)}}

\* persistence.py:146  Trade.session.flush(): the update of the rows whose
\* open_order_id was set to None in the session
Flush(rows, ids) ==
    {IF r["id"] \in ids THEN [r EXCEPT !["open_order_id"] = NULL] ELSE r :
        r \in rows}

\* ------------------------------------------------------------------ state
VARIABLES
    tables,             \* the store: table name -> [cols, rows]
    indexes,            \* the store: the indexes, each [name, tbl]
    pending,            \* Trade.session: ids whose open_order_id was set to
                        \* None and not flushed yet
    pc,                 \* the statement the running entry point is at
    db_url,             \* init's argument
    clean_open_orders,  \* init's argument
    cols,               \* check_migrate's local: the columns of trades
    table_back_name,    \* check_migrate's local
    defs,               \* check_migrate's locals fee_open .. ticker_interval
    todo,               \* the indexes the drop loop has still to drop
    runs,               \* entry points invoked so far
    snap,               \* the store when the running entry point was invoked
    cur,                \* the running (or last finished) invocation
    prev,               \* the invocation before it
    legacy              \* the table the migration renamed, and its new name

vars ==
    <<tables, indexes, pending, pc, db_url, clean_open_orders, cols,
      table_back_name, defs, todo, runs, snap, cur, prev, legacy>>

\* The rows a store holds initially: row i has the values of one of these.
Profiles ==
    <<[exchange |-> sBinance, pair |-> sETH_BTC, is_open |-> 1,
       order |-> Str(sDryRun1)],
      [exchange |-> sbittrex, pair |-> sETHsBTC, is_open |-> 1,
       order |-> Str(sReal)],
      [exchange |-> sbittrex, pair |-> sA_B, is_open |-> 0, order |-> NULL]>>

AllCols == CurrentCols \o <<"fee", "stoploss_order_id">>

ColCode(c) == CHOOSE i \in DOMAIN AllCols : AllCols[i] = c

\* The value row i holds in column c: the profile's for the columns the
\* module looks at, a number that identifies row and column otherwise.
Cell(c, i, p) ==
    IF c = "id" THEN Num(i)
    ELSE IF c = "exchange" THEN Str(p.exchange)
    ELSE IF c = "pair" THEN Str(p.pair)
    ELSE IF c = "is_open" THEN Num(p.is_open)
    ELSE IF c = "open_order_id" THEN p.order
    ELSE Num(100 * i + ColCode(c))

RowsFor(shape, assign) ==
    {[c \in Range(shape) |-> Cell(c, i, Profiles[assign[i]])] :
        i \in DOMAIN assign}

Assignments ==
    UNION {[1..n -> DOMAIN Profiles] : n \in 0..MaxRows}

\* The tables a store may hold besides trades: earlier backups, or a table of
\* another application.
ExtraSets == {{}, {"trades_bak0"}, {"trades_bak1"}, {"other"}}

ExtraTable(n) ==
    IF n = "other" THEN [cols |-> <<"id">>, rows |-> {}]
    ELSE [cols |-> ShapeFee, rows |-> {}]

NoInvocation ==
    [op |-> "none", needed |-> FALSE, log |-> <<>>, result |-> "none",
     step |-> "none", injected |-> FALSE]

NoDefs == [c \in ResolvedCols |-> ""]

NoLegacy == [name |-> "", tab |-> [cols |-> <<>>, rows |-> {}]]

Urls == {"sqlite://", "sqlite:///tradesv3.sqlite", "nosuchdialect://"}

\* The store create_engine binds to is whatever the location holds: no
\* trades table, a current one, or one of a legacy shape, with any rows.
Init ==
    /\ \E extra \in ExtraSets :
       \E tr \in {"absent", "current", "legacy"} :
       \E shape \in LegacyShapes :
       \E assign \in Assignments :
          /\ tr = "absent" => (assign = <<>> /\ shape = ShapeBare)
          /\ tr = "current" => shape = ShapeBare
          /\ tables =
               [n \in extra \cup (IF tr = "absent" THEN {} ELSE {"trades"}) |->
                  IF n = "trades"
                  THEN IF tr = "current"
                       THEN [cols |-> CurrentCols,
                             rows |-> RowsFor(CurrentCols, assign)]
                       ELSE [cols |-> shape, rows |-> RowsFor(shape, assign)]
                  ELSE ExtraTable(n)]
          /\ indexes =
               IF tr = "absent" THEN {}
               ELSE IF tr = "current"
                    THEN {[name |-> n, tbl |-> "trades"] : n \in CurrentIndexes}
                    ELSE {[name |-> n, tbl |-> "trades"] :
                             n \in LegacyIndexes(shape)}
    /\ pending = {}
    /\ pc = "idle"
    /\ db_url = "sqlite://"
    /\ clean_open_orders = FALSE
    /\ cols = <<>>
    /\ table_back_name = ""
    /\ defs = NoDefs
    /\ todo = {}
    /\ runs = 0
    /\ snap = [t |-> tables, i |-> indexes]
    /\ cur = NoInvocation
    /\ prev = NoInvocation
    /\ legacy = NoLegacy

store == <<tables, indexes>>
locals == <<cols, table_back_name, defs, todo>>
args == <<db_url, clean_open_orders>>

\* The invocation ends: its locals are gone.
Return(result, step, injected) ==
    /\ pc' = "idle"
    /\ cur' = [cur EXCEPT !.result = result, !.step = step,
                          !.injected = injected]
    /\ cols' = <<>>
    /\ table_back_name' = ""
    /\ defs' = NoDefs
    /\ todo' = {}

Logged(stmt) == cur' = [cur EXCEPT !.log = Append(cur.log, stmt)]

\* ---------------------------------------------------------------- actions
\* persistence.py:21-57  init(db_url, clean_open_orders) up to the new
\* session; an unknown dialect raises before anything is touched
StartInit ==
    /\ pc = "idle"
    /\ runs < MaxRuns
    /\ \E url \in Urls, flag \in BOOLEAN :
          /\ db_url' = url
          /\ clean_open_orders' = flag
          /\ prev' = cur
          /\ IF url = "nosuchdialect://"
             THEN /\ cur' = [NoInvocation EXCEPT !.op = "init",
                               !.result = "raised", !.step = "create_engine"]
                  /\ pc' = "idle"
                  /\ UNCHANGED pending
             ELSE /\ cur' = [NoInvocation EXCEPT !.op = "init",
                               !.result = "running"]
                  /\ pc' = "create_all"
                  /\ pending' = {}
    /\ runs' = runs + 1
    /\ snap' = [t |-> tables, i |-> indexes]
    /\ UNCHANGED <<store, locals, legacy>>

\* persistence.py:58  create_all in init
InitCreateAll ==
    /\ pc = "create_all"
    /\ \E o \in create_all(tables, indexes) :
          /\ tables' = o.t
          /\ indexes' = o.i
          /\ IF o.ok
             THEN /\ pc' = "check"
                  /\ UNCHANGED <<cur, locals>>
             ELSE Return("raised", "create_all", FALSE)
    /\ UNCHANGED <<pending, args, runs, snap, prev, legacy>>

\* check_migrate(engine) called on its own, on a store that has a trades table
StartCheckMigrate ==
    /\ pc = "idle"
    /\ runs < MaxRuns
    /\ "trades" \in DOMAIN tables
    /\ pc' = "check"
    /\ prev' = cur
    /\ cur' = [NoInvocation EXCEPT !.op = "check_migrate",
                 !.result = "running"]
    /\ runs' = runs + 1
    /\ snap' = [t |-> tables, i |-> indexes]
    /\ UNCHANGED <<store, pending, args, locals, legacy>>

\* persistence.py:77-103  read the columns and the table names, choose the
\* backup name, test for the marker column, resolve the select expressions
Check ==
    /\ pc = "check"
    /\ LET c == tables["trades"].cols IN
       IF has_columns(c, MarkerCol)
       THEN /\ IF cur.op = "init"
               THEN /\ pc' = "clean"
                    /\ UNCHANGED <<cur, locals>>
               ELSE Return("ok", "none", FALSE)
       ELSE /\ cols' = c
            /\ table_back_name' = BackupNameFor(DOMAIN tables)
            /\ defs' = [n \in ResolvedCols |-> get_column_def(c, n, Fallback[n])]
            /\ cur' = [cur EXCEPT !.needed = TRUE]
            /\ pc' = "rename"
            /\ UNCHANGED todo
    /\ UNCHANGED <<store, pending, args, runs, snap, prev, legacy>>

\* persistence.py:105-106  alter table trades rename to <table_back_name>,
\* which the database refuses when a table of that name exists; then the
\* indexes of the renamed table are read
Rename ==
    /\ pc = "rename"
    /\ IF table_back_name \in DOMAIN tables
       THEN /\ Return("raised", "rename", FALSE)
            /\ UNCHANGED <<store, legacy>>
       ELSE /\ tables' = RenameTable(tables, table_back_name)
            /\ indexes' = RenameIndexes(indexes, table_back_name)
            /\ legacy' = [name |-> table_back_name, tab |-> tables["trades"]]
            /\ todo' = get_indexes(indexes', table_back_name)
            /\ pc' = IF todo' = {} THEN "recreate" ELSE "drop_index"
            /\ Logged("rename")
            /\ UNCHANGED <<cols, table_back_name, defs>>
    /\ UNCHANGED <<pending, args, runs, snap, prev>>

\* persistence.py:106-107  one iteration of the loop: drop index <name>
DropIndex ==
    /\ pc = "drop_index"
    /\ \E n \in todo :
          /\ indexes' = {x \in indexes : x.name # n}
          /\ todo' = todo \ {n}
          /\ pc' = IF todo' = {} THEN "recreate" ELSE "drop_index"
    /\ Logged("drop")
    /\ UNCHANGED <<tables, pending, args, cols, table_back_name, defs, runs,
                   snap, prev, legacy>>

\* persistence.py:108  create_all in check_migrate
Recreate ==
    /\ pc = "recreate"
    /\ \E o \in create_all(tables, indexes) :
          /\ tables' = o.t
          /\ indexes' = o.i
          /\ IF o.ok
             THEN /\ pc' = "insert"
                  /\ Logged("create")
                  /\ UNCHANGED locals
             ELSE Return("raised", "recreate", FALSE)
    /\ UNCHANGED <<pending, args, runs, snap, prev, legacy>>

\* persistence.py:110-139  the insert-select from the backup table, then the
\* columns are read again and check_migrate returns
InsertSelect ==
    /\ pc = "insert"
    /\ LET src == tables[table_back_name]
           dst == tables["trades"]
       IN IF InsertAccepted(src, dst, defs)
          THEN /\ tables' = [tables EXCEPT !["trades"].rows =
                                InsertSelectRows(src, dst, defs)]
               /\ IF cur.op = "init"
                  THEN /\ pc' = "clean"
                       /\ cur' = [cur EXCEPT !.log = Append(cur.log, "insert")]
                       /\ cols' = tables'["trades"].cols
                       /\ UNCHANGED <<table_back_name, defs, todo>>
                  ELSE /\ pc' = "idle"
                       /\ cur' = [cur EXCEPT !.log = Append(cur.log, "insert"),
                                             !.result = "ok"]
                       /\ cols' = <<>>
                       /\ table_back_name' = ""
                       /\ defs' = NoDefs
                       /\ todo' = {}
          ELSE /\ Return("raised", "insert", FALSE)
               /\ UNCHANGED tables
    /\ UNCHANGED <<indexes, pending, args, runs, snap, prev, legacy>>

\* persistence.py:105-136  a statement of the migration sequence raises for a
\* reason of the database's own (lock, disk, connection), or the process is
\* stopped there: nothing catches it and nothing is rolled back
ExecuteRaises ==
    /\ pc \in {"rename", "drop_index", "recreate", "insert"}
    /\ Return("raised", pc, TRUE)
    /\ UNCHANGED <<store, pending, args, runs, snap, prev, legacy>>

\* persistence.py:108  create_all raises part-way for a reason of the
\* database's own: the table is created, some of its indexes are not
RecreateRaises ==
    /\ pc = "recreate"
    /\ \E o \in create_all(tables, indexes) :
       \E some \in SUBSET (o.i \ indexes) :
          /\ o.ok
          /\ some # o.i \ indexes
          /\ tables' = o.t
          /\ indexes' = indexes \cup some
    /\ Return("raised", "recreate", TRUE)
    /\ UNCHANGED <<pending, args, runs, snap, prev, legacy>>

\* persistence.py:61-62  the end of init: clean_dry_run_db when asked to and
\* the store is not the in-process one
Clean ==
    /\ pc = "clean"
    /\ pending' = IF ShouldClean(db_url, clean_open_orders)
                  THEN clean_dry_run_db(tables["trades"].rows)
                  ELSE pending
    /\ Return("ok", "none", FALSE)
    /\ UNCHANGED <<store, args, runs, snap, prev, legacy>>

\* persistence.py:142-146  cleanup(): flush the session
Cleanup ==
    /\ pc = "idle"
    /\ tables' = IF pending = {} THEN tables
                 ELSE [tables EXCEPT !["trades"].rows = Flush(@, pending)]
    /\ pending' = {}
    /\ UNCHANGED <<indexes, pc, args, locals, runs, snap, cur, prev, legacy>>

Next ==
    \/ StartInit
    \/ InitCreateAll
    \/ StartCheckMigrate
    \/ Check
    \/ Rename
    \/ DropIndex
    \/ Recreate
    \/ InsertSelect
    \/ ExecuteRaises
    \/ RecreateRaises
    \/ Clean
    \/ Cleanup

Spec == Init /\ [][Next]_vars

\* ----------------------------------------------------------------- claims
\* The value the select computes for insert column c of backup row r.
Selected(r, d, c) ==
    SelectRow(r, d)[CHOOSE i \in DOMAIN InsertCols : InsertCols[i] = c]

\* The running (or last) invocation took the migration branch.
Migrated == cur.needed

\* The backup name the running (or last) invocation chose: the table names it
\* read are those of the store it was invoked on.
ChosenName == BackupNameFor(DOMAIN snap.t)

Count(log, stmt) == Cardinality({i \in DOMAIN log : log[i] = stmt})

\* C1: two check_migrate invocations in succession on a store whose trades
\* table lacked the marker column: the first executes rename, drop index,
\* create table and insert-select once, the second finds the marker column,
\* executes nothing and leaves every table as the first left it.
C1_MigratesExactlyOnce ==
    (/\ pc = "idle"
     /\ cur.op = "check_migrate" /\ prev.op = "check_migrate"
     /\ prev.needed
     /\ ~prev.injected /\ ~cur.injected)
    => /\ Count(prev.log, "rename") = 1
       /\ Count(prev.log, "create") = 1
       /\ Count(prev.log, "insert") = 1
       /\ ~cur.needed
       /\ cur.log = <<>>
       /\ tables = snap.t
       /\ indexes = snap.i

\* C2: after a migration that nothing external stops, of a legacy table that
\* has the fee columns the select reads, trades holds as many rows as the
\* legacy table held, and every row has, in every column the legacy table
\* had, the value it had before.
C2_LosslessCopy ==
    (/\ pc = "idle"
     /\ Migrated
     /\ ~cur.injected
     /\ Count(cur.log, "create") = 1
     /\ \/ "fee" \in Range(legacy.tab.cols)
        \/ {"fee_open", "fee_close"} \subseteq Range(legacy.tab.cols))
    => /\ "trades" \in DOMAIN tables
       /\ Cardinality(tables["trades"].rows) = Cardinality(legacy.tab.rows)
       /\ \A r \in legacy.tab.rows :
             \E t \in tables["trades"].rows :
                /\ t["id"] = r["id"]
                /\ \A c \in Range(legacy.tab.cols) \cap Range(tables["trades"].cols) :
                      t[c] = r[c]

\* C3: the backup name check_migrate chooses is trades_bak<k> for the lowest
\* k for which no table trades_bak<k> exists; it is never the name of an
\* existing table.
C3_BackupNameUnused ==
    pc = "rename"
    => \E k \in 0..(Len(BakNames) - 1) :
          /\ table_back_name = BakName(k)
          /\ BakName(k) \notin DOMAIN tables
          /\ \A j \in 0..(k - 1) : BakName(j) \in DOMAIN tables

\* C4: the pair the copy computes for a legacy row is Y/X when the legacy
\* pair is X_Y, and the legacy pair itself when it has no underscore.
C4_PairNormalized ==
    pc = "insert"
    => \A r \in tables[table_back_name].rows :
          LET p == r["pair"].v
              k == Instr(p, "_")
              m == Selected(r, defs, "pair").v
          IN IF k = 0 THEN m = p
             ELSE (/\ k > 1 /\ k < Len(p)
                   /\ Instr(SubSeq(p, k + 1, Len(p)), "_") = 0)
                  => m = SubSeq(p, k + 1, Len(p)) \o <<"/">> \o SubSeq(p, 1, k - 1)

\* C5: when init has returned, a trade's open_order_id that contained dry_run
\* is empty if and only if clean_open_orders was true and the location is not
\* sqlite://; otherwise, and for every order id without dry_run, the trade
\* shows the order id it had before init.
C5_DryRunGating ==
    (/\ pc = "idle"
     /\ cur.op = "init" /\ cur.result = "ok"
     /\ "trades" \in DOMAIN snap.t)
    => \A r \in snap.t["trades"].rows :
          \E t \in tables["trades"].rows :
             /\ t["id"] = r["id"]
             /\ LET before == r["open_order_id"]
                    after == IF t["id"] \in pending THEN NULL
                             ELSE t["open_order_id"]
                    dry == IF before = NULL THEN FALSE
                           ELSE Contains(before.v, DryRunMarker)
                    gate == clean_open_orders /\ db_url # "sqlite://"
                IN IF dry
                   THEN /\ (after = NULL) <=> gate
                        /\ ~gate => after = before
                   ELSE after = before

\* C5 witness: init has returned after resetting a dry-run order id.
C5_Witness ==
    /\ pc = "idle"
    /\ cur.op = "init" /\ cur.result = "ok"
    /\ clean_open_orders /\ db_url = "sqlite:///tradesv3.sqlite"
    /\ pending # {}

\* The backup table of the failed run holds what trades held when it started.
BackupHoldsLegacy ==
    /\ ChosenName \in DOMAIN tables
    /\ tables[ChosenName] = snap.t["trades"]

\* C6 as stated: whichever step of the migration sequence fails, a table of
\* the backup name exists afterwards and trades exists, as the old or the new
\* table.
C6_FailedLeavesBackupAndTrades ==
    (pc = "idle" /\ Migrated /\ cur.result = "raised")
    => /\ ChosenName \in DOMAIN tables
       /\ "trades" \in DOMAIN tables
       /\ \/ tables["trades"] = snap.t["trades"]
          \/ tables["trades"].cols = CurrentCols

\* C6 amended: a failed step ends the run, no later step is executed and
\* nothing is rolled back.  When the rename fails the store is unchanged
\* (trades is the old table).  When a later step fails the backup table holds
\* the legacy columns and rows, and trades is absent (drop index failed, or
\* create failed before the table was created) or is the new, empty table
\* (create failed after the table was created, or the insert-select failed).
C6_FailedStateByStep ==
    (pc = "idle" /\ Migrated /\ cur.result = "raised")
    => /\ cur.step \in {"rename", "drop_index", "recreate", "insert"}
       /\ cur.step = "rename" =>
             /\ tables = snap.t /\ indexes = snap.i
             /\ cur.log = <<>>
       /\ cur.step = "drop_index" =>
             /\ BackupHoldsLegacy
             /\ "trades" \notin DOMAIN tables
             /\ Count(cur.log, "create") = 0 /\ Count(cur.log, "insert") = 0
       /\ cur.step = "recreate" =>
             /\ BackupHoldsLegacy
             /\ "trades" \in DOMAIN tables => tables["trades"] = EmptyTrades
             /\ Count(cur.log, "create") = 0 /\ Count(cur.log, "insert") = 0
       /\ cur.step = "insert" =>
             /\ BackupHoldsLegacy
             /\ "trades" \in DOMAIN tables /\ tables["trades"] = EmptyTrades
             /\ Count(cur.log, "insert") = 0

\* C6 witness: a run stopped while dropping the indexes of a backup table
\* that holds rows.
C6_Witness ==
    /\ pc = "idle" /\ Migrated /\ cur.result = "raised"
    /\ cur.step = "drop_index"
    /\ "trades" \notin DOMAIN tables
    /\ legacy.tab.rows # {}

C8_BackupRetained ==
    legacy.name # ""
    => /\ legacy.name \in DOMAIN tables
       /\ tables[legacy.name] = legacy.tab

\* C8 witness: a later init has returned on a store holding the backup of an
\* earlier migration, rows included.
C8_Witness ==
    /\ legacy.name # "" /\ legacy.name \in DOMAIN snap.t
    /\ legacy.tab.rows # {}
    /\ pc = "idle" /\ cur.op = "init" /\ cur.result = "ok"

\* C9: the rename is the first statement of a migration, the indexes of the
\* renamed table are dropped after it and before trades is created again, the
\* copy comes only after the creation, and when the new table is created no
\* index of the legacy table is left.
C9_StepOrder ==
    /\ \A i \in DOMAIN cur.log :
          /\ cur.log[i] = "rename" <=> i = 1
          /\ cur.log[i] = "drop" => \A j \in 1..i : cur.log[j] # "create"
          /\ cur.log[i] = "create" => \A j \in 2..(i - 1) : cur.log[j] = "drop"
          /\ cur.log[i] = "insert" => (i > 2 /\ cur.log[i - 1] = "create")
    /\ (pc = "recreate" \/ Count(cur.log, "create") = 1)
          => Count(cur.log, "drop") =
                Cardinality({x \in snap.i : x.tbl = "trades"})
    /\ pc = "recreate" => {x \in indexes : x.tbl = table_back_name} = {}
    /\ pc = "insert" => cur.log[Len(cur.log)] = "create"

\* C9 witness: the copy is about to run after two indexes were dropped.
C9_Witness ==
    /\ pc = "insert"
    /\ Count(cur.log, "drop") = 2

\* A later init: it runs on a store that held the backup table when it was
\* invoked, and it is past its create_all.
LaterInit ==
    /\ cur.op = "init" /\ cur.step # "create_engine"
    /\ legacy.name # "" /\ legacy.name \in DOMAIN snap.t
    /\ pc # "create_all"

\* The migration is not resumed: trades is a table with the marker column,
\* check_migrate takes the no-op branch and no legacy row is in trades.
NotResumed ==
    /\ "trades" \in DOMAIN tables
    /\ "stop_loss_pct" \in Range(tables["trades"].cols)
    /\ ~cur.needed /\ cur.log = <<>>
    /\ pc = "idle" => cur.result = "ok"
    /\ \A r \in legacy.tab.rows :
          \A t \in tables["trades"].rows : t["id"] # r["id"]

\* C10 as stated: after a migration that stopped between the rename and the
\* end of the insert-select, every later init is not resumed.
C10_NeverResumed == LaterInit => NotResumed

\* C10 amended: the same, for a migration that stopped after every index of
\* the renamed table had been dropped; and in any case no legacy row reaches
\* trades in a later init.
C10_NeverResumedOnceIndexesDropped ==
    /\ (LaterInit /\ {x \in snap.i : x.tbl = legacy.name} = {}) => NotResumed
    /\ LaterInit =>
          /\ cur.log = <<>>
          /\ "trades" \in DOMAIN tables =>
                \A r \in legacy.tab.rows :
                   \A t \in tables["trades"].rows : t["id"] # r["id"]

\* C10 witness: a later init has returned on a store whose backup table holds
\* the legacy rows.
C10_Witness ==
    /\ LaterInit
    /\ {x \in snap.i : x.tbl = legacy.name} = {}
    /\ pc = "idle" /\ cur.result = "ok"
    /\ legacy.tab.rows # {}
    /\ tables["trades"].rows = {}

====
